---- MODULE Spec2Model ----
(***************************************************************************)
(* Model of the streaming inference pipeline of the Discord LLaMA bot:     *)
(*   - generation.rs : the worker thread (make_thread) and the per-token   *)
(*     callback of process_incoming_request, with the request channel,     *)
(*     the cancel channel and one token channel per request;               *)
(*   - handler.rs    : Handler::interaction_create (the cancel button),    *)
(*     hallucinate (submission) and the Outputter (chunks and messages).   *)
(* Three specifications share the variables:                               *)
(*   Spec      the worker with its channels,                               *)
(*   SpecDrain the cancel channel alone, drained by arbitrary pollers,     *)
(*   SpecOut   one Outputter with the chat transport.                      *)
(***************************************************************************)
EXTENDS Integers, Sequences, FiniteSets, TLC

\* ---- bounds of the model ------------------------------------------------
NJobs == 2
MaxFrags == 2
MaxCancel == 1

\* ---- worker state (generation.rs) ---------------------------------------
VARIABLES
  request_rx,   \* contents of the request channel (flume::unbounded), FIFO
  cancel_rx,    \* contents of the cancel channel (flume::unbounded), FIFO
  token_ch,     \* per request: every item sent on token_tx, in order
  rx_alive,     \* per request: token_rx has not been dropped by the caller
  tx_closed,    \* per request: the Request (and its token_tx) was dropped
  jstate,       \* per request: "new", "queued", "running", "done"
  wpc,          \* worker position: "recv", "infer", "ret", "sleep"
  cur,          \* the request the worker holds (0: none)
  wres,         \* result of process_incoming_request: "none","Ok", or an error
  ncb,          \* per request: callbacks the backend has made so far
  observed,     \* per request: a poll found the request's id
  submit_log,   \* requests in the order they were sent on request_tx
  start_log,    \* requests in the order the worker received them
  creq,         \* per request: a cancel was sent for it before it completed
  creq0,        \* per request: ... and before any callback of it
  polled_after, \* per request: it polled after such a cancel was sent
  ncancel,      \* cancel requests sent so far
  poll_log,     \* SpecDrain: results of the last polls since a RequestCancel
  \* ---- Outputter state (handler.rs), used by SpecOut ----
  prompts,           \* Outputter.prompts
  user_id,           \* Outputter.user_id
  messages,          \* Outputter.messages: the Discord messages of the job
  chunks,            \* Outputter.chunks
  message,           \* Outputter.message: the accumulated text
  in_terminal_state, \* Outputter.in_terminal_state
  replies,           \* messages on_error posted without keeping them
  opc,               \* hallucinate: "loop", "finished", "errored", "failed";
                     \* after a failure "reported" or "panicked"
  ntok,              \* tokens hallucinate has taken from the stream
  last_op,           \* the Outputter method called last, whether it was
                     \* to run a synchronization pass, which of its
                     \* transport calls failed (0: none) and how many it made
  \* ---- one call of a text function (SpecText) ----
  fin,               \* the arguments of the call
  fout               \* its result (done is FALSE before the call)

wvars == <<request_rx, cancel_rx, token_ch, rx_alive, tx_closed, jstate, wpc,
           cur, wres, ncb, observed, submit_log, start_log, creq, creq0,
           polled_after, ncancel>>

ovars == <<prompts, user_id, messages, chunks, message, in_terminal_state,
           replies, opc, ntok, last_op>>

fvars == <<fin, fout>>

vars == <<wvars, poll_log, fvars, ovars>>

Jobs == 1..NJobs
\* message ids a cancel button may name: the jobs' ids and one id of no job
CancelIds == 0..NJobs
\* user ids: each job's initiator is user 1 + (job mod 2)
Users == 1..2
Initiator(j) == 1 + (j % 2)

\* ---- tokens (generation.rs: Token, InferenceError) ----------------------
Cancelled == "The generation was cancelled."
SendFailed == "Failed to send token to channel."
BackendFailed == "backend error"

TokenOf(t) == <<"Token", t>>
ErrorOf(e) == <<"Error", e>>
IsError(x) == x[1] = "Error"
IsFragment(x) == x[1] = "Token"

\* ---- generic helpers -----------------------------------------------------
Range(s) == {s[i] : i \in 1..Len(s)}
IsPrefixOf(p, s) == Len(p) <= Len(s) /\ SubSeq(s, 1, Len(p)) = p

\* ---- text: a string is a sequence of one-character strings --------------
\* Outputter::MESSAGE_CHUNK_SIZE
MESSAGE_CHUNK_SIZE == 1500

\* The symbol "X" stands for a run of MESSAGE_CHUNK_SIZE + 1 letters x: a word
\* longer than a chunk. Every text of the model is a concatenation of whole
\* symbols, and the code only concatenates texts, strips prefixes, splits at
\* spaces and takes byte lengths, so the run is never cut.
\* The symbol "W" stands for a word of 18 letters in the same way.
\* str::len() counts bytes: one per ASCII character, two for "é".
Utf8Len(s) ==
  Len(s) + Cardinality({i \in 1..Len(s) : s[i] = "é"})
         + MESSAGE_CHUNK_SIZE * Cardinality({i \in 1..Len(s) : s[i] = "X"})
         + 17 * Cardinality({i \in 1..Len(s) : s[i] = "W"})

\* str::strip_prefix: Some(rest) when s starts with p, None otherwise.
StripPrefix(s, p) ==
  IF IsPrefixOf(p, s)
    THEN [some |-> TRUE, rest |-> SubSeq(s, Len(p) + 1, Len(s))]
    ELSE [some |-> FALSE, rest |-> <<>>]

MinOf(S) == CHOOSE x \in S : \A y \in S : x <= y

\* positions at which pat occurs in s, at or after position from
Occurrences(s, pat, from) ==
  {i \in from..(Len(s) - Len(pat) + 1) : SubSeq(s, i, i + Len(pat) - 1) = pat}

\* str::split_once(pat).unwrap_or_default(): the text before and after the
\* first occurrence of pat; two empty strings when pat does not occur.
SplitOnce(s, pat) ==
  LET occ == Occurrences(s, pat, 1) IN
    IF occ = {} THEN <<<<>>, <<>>>>
    ELSE <<SubSeq(s, 1, MinOf(occ) - 1),
           SubSeq(s, MinOf(occ) + Len(pat), Len(s))>>

\* str::replace(pat, by): every non-overlapping occurrence, left to right.
RECURSIVE ReplaceFrom(_, _, _, _)
ReplaceFrom(s, pat, by, from) ==
  LET occ == Occurrences(s, pat, from) IN
    IF occ = {} THEN SubSeq(s, from, Len(s))
    ELSE SubSeq(s, from, MinOf(occ) - 1) \o by
           \o ReplaceFrom(s, pat, by, MinOf(occ) + Len(pat))

Replace(s, pat, by) == ReplaceFrom(s, pat, by, 1)

\* str::split(' '): the pieces between the spaces (one more than spaces).
RECURSIVE SplitFrom(_, _)
SplitFrom(s, from) ==
  LET sp == {i \in from..Len(s) : s[i] = " "} IN
    IF sp = {} THEN <<SubSeq(s, from, Len(s))>>
    ELSE <<SubSeq(s, from, MinOf(sp) - 1)>> \o SplitFrom(s, MinOf(sp) + 1)

SplitSpaces(s) == SplitFrom(s, 1)

PLACEHOLDER == <<"{", "{", "P", "R", "O", "M", "P", "T", "}", "}">>
Bold(s) == <<"*", "*">> \o s \o <<"*", "*">>
Strike(s) == <<"~", "~">> \o s \o <<"~", "~">>

\* ---- Prompts (handler.rs) -------------------------------------------------
\* hallucinate builds Prompts from the command's template and the user prompt.
MakePrompts(show, template, user) ==
  [show_prompt_template |-> show,
   processed |-> Replace(template, PLACEHOLDER, user),
   user |-> user,
   template |-> template]

\* Mutant of decouple_prompt_from_message: the newline that ends the suffix
\* is not put back between the prompt and the response.
decouple_DropsNewline(p, output) ==
  LET ps == SplitOnce(p.template, PLACEHOLDER)
      m == StripPrefix(output, ps[1])
      r1 == StripPrefix(m.rest, p.user)
      r2 == StripPrefix(r1.rest, ps[2])
  IN  IF ~m.some THEN <<>>
      ELSE IF ~r1.some THEN m.rest
      ELSE IF ~r2.some THEN p.user
      ELSE p.user \o r2.rest

\* Prompts::decouple_prompt_from_message
decouple_prompt_from_message(p, output) ==
  LET ps == SplitOnce(p.template, PLACEHOLDER)
      prefix == ps[1]
      suffix == ps[2]
      m == StripPrefix(output, prefix)
      r1 == StripPrefix(m.rest, p.user)
      r2 == StripPrefix(r1.rest, suffix)
      newline == IF suffix # <<>> /\ suffix[Len(suffix)] = "\n"
                   THEN <<"\n">> ELSE <<>>
  IN  IF ~m.some THEN <<>>
      ELSE IF ~r1.some THEN m.rest
      ELSE IF ~r2.some THEN p.user
      ELSE p.user \o newline \o r2.rest

\* Mutant of make_markdown_message: no separate case for an empty message;
\* the part generated so far is put in bold also when there is none.
make_markdown_message_NoEmptyCase(p, text) ==
  LET msg == IF ~p.show_prompt_template
               THEN decouple_prompt_from_message(p, text) ELSE text
      display_prompt == IF ~p.show_prompt_template THEN p.user ELSE p.processed
      a == StripPrefix(msg, display_prompt)
      b == StripPrefix(display_prompt, msg)
  IN  IF a.some THEN Bold(display_prompt) \o a.rest
      ELSE IF b.some THEN Bold(msg) \o Strike(b.rest)
      ELSE msg

\* Prompts::make_markdown_message
make_markdown_message(p, text) ==
  LET msg == IF ~p.show_prompt_template
               THEN decouple_prompt_from_message(p, text) ELSE text
      display_prompt == IF ~p.show_prompt_template THEN p.user ELSE p.processed
      a == StripPrefix(msg, display_prompt)
      b == StripPrefix(display_prompt, msg)
  IN  IF a.some THEN Bold(display_prompt) \o a.rest
      ELSE IF b.some
        THEN IF msg = <<>> THEN Strike(b.rest)
             ELSE Bold(msg) \o Strike(b.rest)
      ELSE msg

\* ---- Outputter: chunking (handler.rs, new_token) --------------------------

\* Mutant of ChunkWords: never starts a new chunk.
RECURSIVE ChunkWords_NoLimit(_, _, _)
ChunkWords_NoLimit(words, i, acc) ==
  IF i > Len(words) THEN acc
  ELSE IF acc = <<>> THEN ChunkWords_NoLimit(words, i + 1, <<words[i]>>)
  ELSE ChunkWords_NoLimit(words, i + 1,
         [acc EXCEPT ![Len(acc)] = @ \o <<" ">> \o words[i]])

\* the body of `for word in markdown.split(' ')`, from word i on
RECURSIVE ChunkWords(_, _, _)
ChunkWords(words, i, acc) ==
  IF i > Len(words) THEN acc
  ELSE IF acc = <<>> THEN ChunkWords(words, i + 1, <<words[i]>>)
  ELSE IF Utf8Len(acc[Len(acc)]) > MESSAGE_CHUNK_SIZE
    THEN ChunkWords(words, i + 1, Append(acc, words[i]))
  ELSE ChunkWords(words, i + 1,
         [acc EXCEPT ![Len(acc)] = @ \o <<" ">> \o words[i]])

NonEmptyWord(w) == w # <<>>

\* Mutant of ChunksOf: splits like split_whitespace, dropping empty words.
ChunksOf_SkipsEmptyWords(markdown) ==
  ChunkWords(SelectSeq(SplitSpaces(markdown), NonEmptyWord), 1, <<>>)

ChunksOf(markdown) == ChunkWords(SplitSpaces(markdown), 1, <<>>)

\* ---- the cancel channel (CancellationRegistry) ---------------------------
\* cancel_tx.send(MessageId(message_id)): one more entry at the back.
CancelSend(ch, id) == Append(ch, id)

\* Mutant of DrainAndCheck: looks at the pending entries without taking
\* them off the channel.
DrainAndCheck_Peek(ch, id) == [found |-> id \in Range(ch), rest |-> ch]

\* Mutant of DrainAndCheck: takes only the entries naming `id` off the
\* channel and leaves the others for later polls.
DrainAndCheck_RemovesOnlyOwn(ch, id) ==
  [found |-> id \in Range(ch), rest |-> SelectSeq(ch, LAMBDA x : x # id)]

\* Mutant of DrainAndCheck: counts the requests; a job is cancelled only when
\* exactly one request for it is pending.
DrainAndCheck_CountsRequests(ch, id) ==
  [found |-> Cardinality({k \in 1..Len(ch) : ch[k] = id}) = 1,
   rest |-> SubSeq(ch, Len(ch) + 1, Len(ch))]

\* Mutant of DrainAndCheck: any pending request cancels the polling job,
\* whatever id it names.
DrainAndCheck_AnyId(ch, id) ==
  [found |-> ch # <<>>, rest |-> SubSeq(ch, Len(ch) + 1, Len(ch))]

\* cancel_rx.drain().collect::<HashSet<_>>() followed by contains(&id):
\* takes every pending entry off the channel and tests membership.
DrainAndCheck(ch, id) ==
  [found |-> id \in Range(ch), rest |-> SubSeq(ch, Len(ch) + 1, Len(ch))]

\* ---- hallucinate: submission of a request --------------------------------
Submit(j) ==
  /\ jstate[j] = "new"
  /\ request_rx' = Append(request_rx, j)
  /\ jstate' = [jstate EXCEPT ![j] = "queued"]
  /\ submit_log' = Append(submit_log, j)
  /\ UNCHANGED <<cancel_rx, token_ch, rx_alive, tx_closed, wpc, cur, wres,
                 ncb, observed, start_log, creq, creq0, polled_after,
                 poll_log, fvars, ovars, ncancel>>

\* hallucinate returns early on a transport error: token_rx is dropped while
\* the request is queued or running. (Dropped after the worker has finished
\* the request, it changes nothing the worker does.)
DropReceiver(j) ==
  /\ jstate[j] \in {"queued", "running"}
  /\ rx_alive[j]
  /\ rx_alive' = [rx_alive EXCEPT ![j] = FALSE]
  /\ UNCHANGED <<request_rx, cancel_rx, token_ch, tx_closed, jstate, wpc, cur,
                 wres, ncb, observed, submit_log, start_log, creq, creq0,
                 polled_after, poll_log, fvars, ovars, ncancel>>

\* Mutant of interaction_create: the id is sent whoever pressed the button.
interaction_create_AnyUser(ch, mid, uid, user) == CancelSend(ch, mid)

\* Handler::interaction_create, MessageComponent branch, on the cancel
\* channel: custom id "cancel#mid#uid", pressed by `user`.
interaction_create(ch, mid, uid, user) ==
  IF user = uid THEN CancelSend(ch, mid) ELSE ch

\* ---- Handler::interaction_create, MessageComponent branch ----------------
\* custom_id = "cancel#<mid>#<uid>", pressed by `user`.
InteractionCancel(mid, uid, user) ==
  /\ ncancel < MaxCancel
  /\ cancel_rx' = interaction_create(cancel_rx, mid, uid, user)
  /\ IF cancel_rx' # cancel_rx
       THEN /\ ncancel' = ncancel + 1
            /\ creq' = [j \in Jobs |->
                 creq[j] \/ (j = mid /\ jstate[j] \in {"queued", "running"})]
            /\ creq0' = [j \in Jobs |->
                 creq0[j] \/ (j = mid /\ jstate[j] \in {"queued", "running"}
                                /\ ncb[j] = 0)]
       ELSE UNCHANGED <<creq, creq0, ncancel>>
  /\ UNCHANGED <<request_rx, token_ch, rx_alive, tx_closed, jstate, wpc, cur,
                 wres, ncb, observed, submit_log, start_log, polled_after,
                 poll_log, fvars, ovars>>

\* Mutant of WorkerRecv: takes the next request while one is still running.
WorkerRecv_WhileBusy ==
  /\ wpc \in {"recv", "infer"}
  /\ request_rx # <<>>
  /\ cur' = Head(request_rx)
  /\ request_rx' = Tail(request_rx)
  /\ jstate' = [jstate EXCEPT ![Head(request_rx)] = "running"]
  /\ start_log' = Append(start_log, Head(request_rx))
  /\ wpc' = "infer"
  /\ wres' = "none"
  /\ UNCHANGED <<cancel_rx, token_ch, rx_alive, tx_closed, ncb, observed,
                 submit_log, creq, creq0, polled_after, poll_log, fvars, ovars, ncancel>>

\* Mutant of WorkerRecv: takes the newest request instead of the oldest.
WorkerRecv_Lifo ==
  /\ wpc = "recv"
  /\ request_rx # <<>>
  /\ cur' = request_rx[Len(request_rx)]
  /\ request_rx' = SubSeq(request_rx, 1, Len(request_rx) - 1)
  /\ jstate' = [jstate EXCEPT ![request_rx[Len(request_rx)]] = "running"]
  /\ start_log' = Append(start_log, request_rx[Len(request_rx)])
  /\ wpc' = "infer"
  /\ wres' = "none"
  /\ UNCHANGED <<cancel_rx, token_ch, rx_alive, tx_closed, ncb, observed,
                 submit_log, creq, creq0, polled_after, poll_log, fvars, ovars, ncancel>>

\* ---- make_thread: the worker loop ----------------------------------------
\* request_rx.try_recv() returned a request: process_incoming_request starts.
WorkerRecv ==
  /\ wpc = "recv"
  /\ request_rx # <<>>
  /\ cur' = Head(request_rx)
  /\ request_rx' = Tail(request_rx)
  /\ jstate' = [jstate EXCEPT ![Head(request_rx)] = "running"]
  /\ start_log' = Append(start_log, Head(request_rx))
  /\ wpc' = "infer"
  /\ wres' = "none"
  /\ UNCHANGED <<cancel_rx, token_ch, rx_alive, tx_closed, ncb, observed,
                 submit_log, creq, creq0, polled_after, poll_log, fvars, ovars, ncancel>>

\* request_rx.try_recv() returned Err(Empty): fall through to the sleep.
WorkerRecvEmpty ==
  /\ wpc = "recv"
  /\ request_rx = <<>>
  /\ wpc' = "sleep"
  /\ UNCHANGED <<request_rx, cancel_rx, token_ch, rx_alive, tx_closed, jstate,
                 cur, wres, ncb, observed, submit_log, start_log, creq, creq0,
                 polled_after, poll_log, fvars, ovars, ncancel>>

\* std::thread::sleep(5 ms), then the loop starts over.
WorkerSleep ==
  /\ wpc = "sleep"
  /\ wpc' = "recv"
  /\ UNCHANGED <<request_rx, cancel_rx, token_ch, rx_alive, tx_closed, jstate,
                 cur, wres, ncb, observed, submit_log, start_log, creq, creq0,
                 polled_after, poll_log, fvars, ovars, ncancel>>

\* callbacks the backend has made in the whole run
RECURSIVE SumTo(_, _)
SumTo(f, n) == IF n = 0 THEN 0 ELSE f[n] + SumTo(f, n - 1)
CallbacksMade == SumTo(ncb, NJobs)

\* Mutant of Callback: on a cancellation the callback itself sends the
\* Failure and then returns the error, which make_thread sends again.
Callback_SendsFailureItself(t) ==
  /\ wpc = "infer"
  /\ CallbacksMade < MaxFrags
  /\ LET d == DrainAndCheck(cancel_rx, cur) IN
       /\ cancel_rx' = d.rest
       /\ ncb' = [ncb EXCEPT ![cur] = @ + 1]
       /\ polled_after' = [polled_after EXCEPT ![cur] = @ \/ creq[cur]]
       /\ IF d.found
            THEN /\ wres' = Cancelled
                 /\ wpc' = "ret"
                 /\ observed' = [observed EXCEPT ![cur] = TRUE]
                 /\ token_ch' = [token_ch EXCEPT
                      ![cur] = Append(@, ErrorOf(Cancelled))]
            ELSE /\ UNCHANGED observed
                 /\ IF t = "eot"
                      THEN UNCHANGED <<token_ch, wres, wpc>>
                      ELSE IF rx_alive[cur]
                        THEN /\ token_ch' = [token_ch EXCEPT
                                  ![cur] = Append(@, TokenOf(ncb[cur] + 1))]
                             /\ UNCHANGED <<wres, wpc>>
                        ELSE /\ wres' = SendFailed
                             /\ wpc' = "ret"
                             /\ UNCHANGED token_ch
  /\ UNCHANGED <<request_rx, rx_alive, tx_closed, jstate, cur, submit_log,
                 start_log, creq, creq0, poll_log, fvars, ovars, ncancel>>

\* Mutant of Callback: the fragment is forwarded first and the cancel
\* channel is polled afterwards.
Callback_ForwardsBeforePoll(t) ==
  /\ wpc = "infer"
  /\ CallbacksMade < MaxFrags
  /\ LET d == DrainAndCheck(cancel_rx, cur)
         sent == t # "eot" /\ rx_alive[cur]
     IN
       /\ cancel_rx' = d.rest
       /\ ncb' = [ncb EXCEPT ![cur] = @ + 1]
       /\ polled_after' = [polled_after EXCEPT ![cur] = @ \/ creq[cur]]
       /\ token_ch' = [token_ch EXCEPT ![cur] =
            IF sent THEN Append(@, TokenOf(ncb[cur] + 1)) ELSE @]
       /\ IF t # "eot" /\ ~rx_alive[cur]
            THEN /\ wres' = SendFailed
                 /\ wpc' = "ret"
                 /\ UNCHANGED observed
            ELSE IF d.found
              THEN /\ wres' = Cancelled
                   /\ wpc' = "ret"
                   /\ observed' = [observed EXCEPT ![cur] = TRUE]
              ELSE UNCHANGED <<observed, wres, wpc>>
  /\ UNCHANGED <<request_rx, rx_alive, tx_closed, jstate, cur, submit_log,
                 start_log, creq, creq0, poll_log, fvars, ovars, ncancel>>

\* The per-token callback of session.infer; t is "text" for SnapshotToken,
\* PromptToken or InferredToken and "eot" for EotToken.
Callback(t) ==
  /\ wpc = "infer"
  /\ CallbacksMade < MaxFrags
  /\ LET d == DrainAndCheck(cancel_rx, cur) IN
       /\ cancel_rx' = d.rest
       /\ ncb' = [ncb EXCEPT ![cur] = @ + 1]
       /\ polled_after' = [polled_after EXCEPT ![cur] = @ \/ creq[cur]]
       /\ IF d.found
            THEN /\ wres' = Cancelled
                 /\ wpc' = "ret"
                 /\ observed' = [observed EXCEPT ![cur] = TRUE]
                 /\ UNCHANGED token_ch
            ELSE /\ UNCHANGED observed
                 /\ IF t = "eot"
                      THEN UNCHANGED <<token_ch, wres, wpc>>
                      ELSE IF rx_alive[cur]
                        THEN /\ token_ch' = [token_ch EXCEPT
                                  ![cur] = Append(@, TokenOf(ncb[cur] + 1))]
                             /\ UNCHANGED <<wres, wpc>>
                        ELSE /\ wres' = SendFailed
                             /\ wpc' = "ret"
                             /\ UNCHANGED token_ch
  /\ UNCHANGED <<request_rx, rx_alive, tx_closed, jstate, cur, submit_log,
                 start_log, creq, creq0, poll_log, fvars, ovars, ncancel>>

\* session.infer returns Ok: the backend reached the end of its output.
BackendEnd ==
  /\ wpc = "infer"
  /\ wres' = "Ok"
  /\ wpc' = "ret"
  /\ UNCHANGED <<request_rx, cancel_rx, token_ch, rx_alive, tx_closed, jstate,
                 cur, ncb, observed, submit_log, start_log, creq, creq0,
                 polled_after, poll_log, fvars, ovars, ncancel>>

\* session.infer returns an llm::InferenceError other than UserCallback.
BackendError ==
  /\ wpc = "infer"
  /\ wres' = BackendFailed
  /\ wpc' = "ret"
  /\ UNCHANGED <<request_rx, cancel_rx, token_ch, rx_alive, tx_closed, jstate,
                 cur, ncb, observed, submit_log, start_log, creq, creq0,
                 polled_after, poll_log, fvars, ovars, ncancel>>

\* Mutant of WorkerReturn: after a failed send the request is run again.
WorkerReturn_RetriesAfterSendFailure ==
  /\ wpc = "ret"
  /\ token_ch' = [token_ch EXCEPT ![cur] =
        IF wres # "Ok" /\ rx_alive[cur] THEN Append(@, ErrorOf(wres)) ELSE @]
  /\ tx_closed' = [tx_closed EXCEPT ![cur] = TRUE]
  /\ jstate' = [jstate EXCEPT ![cur] =
        IF wres = SendFailed THEN "running" ELSE "done"]
  /\ cur' = IF wres = SendFailed THEN cur ELSE 0
  /\ wres' = "none"
  /\ wpc' = IF wres = SendFailed THEN "infer" ELSE "sleep"
  /\ UNCHANGED <<request_rx, cancel_rx, rx_alive, ncb, observed, submit_log,
                 start_log, creq, creq0, polled_after, poll_log, fvars, ovars, ncancel>>

\* Mutant of WorkerReturn: a terminal token is sent on Ok as well.
WorkerReturn_AlwaysSendsTerminal ==
  /\ wpc = "ret"
  /\ token_ch' = [token_ch EXCEPT ![cur] =
        IF rx_alive[cur] THEN Append(@, ErrorOf(wres)) ELSE @]
  /\ tx_closed' = [tx_closed EXCEPT ![cur] = TRUE]
  /\ jstate' = [jstate EXCEPT ![cur] = "done"]
  /\ cur' = 0
  /\ wres' = "none"
  /\ wpc' = "sleep"
  /\ UNCHANGED <<request_rx, cancel_rx, rx_alive, ncb, observed, submit_log,
                 start_log, creq, creq0, polled_after, poll_log, fvars, ovars, ncancel>>

\* Mutant of WorkerReturn: only a cancellation is reported to the caller.
WorkerReturn_SwallowsBackendError ==
  /\ wpc = "ret"
  /\ token_ch' = [token_ch EXCEPT ![cur] =
        IF wres = Cancelled /\ rx_alive[cur] THEN Append(@, ErrorOf(wres)) ELSE @]
  /\ tx_closed' = [tx_closed EXCEPT ![cur] = TRUE]
  /\ jstate' = [jstate EXCEPT ![cur] = "done"]
  /\ cur' = 0
  /\ wres' = "none"
  /\ wpc' = "sleep"
  /\ UNCHANGED <<request_rx, cancel_rx, rx_alive, ncb, observed, submit_log,
                 start_log, creq, creq0, polled_after, poll_log, fvars, ovars, ncancel>>

\* Mutant of WorkerReturn: after a request that ended with an error the
\* worker leaves its loop.
WorkerReturn_StopsAfterFailure ==
  /\ wpc = "ret"
  /\ token_ch' = [token_ch EXCEPT ![cur] =
        IF wres # "Ok" /\ rx_alive[cur] THEN Append(@, ErrorOf(wres)) ELSE @]
  /\ tx_closed' = [tx_closed EXCEPT ![cur] = TRUE]
  /\ jstate' = [jstate EXCEPT ![cur] = "done"]
  /\ cur' = 0
  /\ wres' = "none"
  /\ wpc' = IF wres # "Ok" THEN "stopped" ELSE "sleep"
  /\ UNCHANGED <<request_rx, cancel_rx, rx_alive, ncb, observed, submit_log,
                 start_log, creq, creq0, polled_after, poll_log, fvars, ovars, ncancel>>

\* make_thread's match on the result; the request is dropped afterwards.
WorkerReturn ==
  /\ wpc = "ret"
  /\ token_ch' = [token_ch EXCEPT ![cur] =
        IF wres # "Ok" /\ rx_alive[cur] THEN Append(@, ErrorOf(wres)) ELSE @]
  /\ tx_closed' = [tx_closed EXCEPT ![cur] = TRUE]
  /\ jstate' = [jstate EXCEPT ![cur] = "done"]
  /\ cur' = 0
  /\ wres' = "none"
  /\ wpc' = "sleep"
  /\ UNCHANGED <<request_rx, cancel_rx, rx_alive, ncb, observed, submit_log,
                 start_log, creq, creq0, polled_after, poll_log, fvars, ovars, ncancel>>

\* ---- Outputter: the chat transport (serenity Message) --------------------
\* A message: its id, its content, its components (<<>> for none, or the
\* cancel button's custom id) and the id of the message it replies to.
NoComponents == <<>>
CancelButton(first_id, uid) == <<"cancel", first_id, uid>>
NewMessage(id, content, reply_to) ==
  [id |-> id, content |-> content, components |-> NoComponents,
   reply_to |-> reply_to]

\* The working copy of an Outputter while one of its methods runs:
\*   ok    no transport call has failed yet (a failure returns through `?`),
\*   left  k > 0: the k-th transport call from now fails; 0: none fails,
\*   nops  transport calls made so far.
Working(f) ==
  [prompts |-> prompts, user_id |-> user_id, messages |-> messages,
   chunks |-> chunks, message |-> message,
   in_terminal_state |-> in_terminal_state, replies |-> replies,
   ok |-> TRUE, left |-> f, nops |-> 0]

CallFails(o) == [o EXCEPT !.ok = FALSE, !.left = 0, !.nops = @ + 1]
CallDone(o) == [o EXCEPT !.left = IF @ = 0 THEN 0 ELSE @ - 1, !.nops = @ + 1]
\* message ids grow with every message the job posts
NextId(o) == Len(o.messages) + Len(o.replies) + 1

\* msg.edit(http, |m| m.content(c)) on messages[i]
edit_content(o, i, c) ==
  IF ~o.ok THEN o
  ELSE IF o.left = 1 THEN CallFails(o)
  ELSE CallDone([o EXCEPT !.messages[i].content = c])

\* msg.edit(http, |m| m.set_components(comp)) on messages[i]
edit_components(o, i, comp) ==
  IF ~o.ok THEN o
  ELSE IF o.left = 1 THEN CallFails(o)
  ELSE CallDone([o EXCEPT !.messages[i].components = comp])

\* msg.edit(http, |m| m.set_components(comp).content(c)) on messages[i]
edit_both(o, i, c, comp) ==
  IF ~o.ok THEN o
  ELSE IF o.left = 1 THEN CallFails(o)
  ELSE CallDone([o EXCEPT !.messages[i].content = c,
                          !.messages[i].components = comp])

\* Mutant of reply_and_push: the new message takes the place of the last
\* message instead of being pushed after it.
reply_and_push_ReplacesLast(o, c) ==
  IF ~o.ok THEN o
  ELSE IF o.left = 1 THEN CallFails(o)
  ELSE CallDone([o EXCEPT !.messages[Len(o.messages)] =
         NewMessage(NextId(o), c, o.messages[Len(o.messages)].id)])

\* let msg = last.reply(http, c).await?; self.messages.push(msg)
reply_and_push(o, c) ==
  IF ~o.ok THEN o
  ELSE IF o.left = 1 THEN CallFails(o)
  ELSE CallDone([o EXCEPT !.messages = Append(@,
         NewMessage(NextId(o), c, o.messages[Len(o.messages)].id))])

\* last.reply(http, c).await?  (the new message is not kept)
reply_only(o, c) ==
  IF ~o.ok THEN o
  ELSE IF o.left = 1 THEN CallFails(o)
  ELSE CallDone([o EXCEPT !.replies = Append(@,
         NewMessage(NextId(o), c, o.messages[Len(o.messages)].id))])

\* add_cancel_button(http, first_id, msg, user_id) on messages[i]
add_cancel_button(o, first_id, i) ==
  edit_components(o, i, CancelButton(first_id, o.user_id))

\* Mutant of ClearComponentsFrom: a failed edit does not end the loop; the
\* remaining messages are still edited before the failure is returned.
RECURSIVE ClearComponentsFrom_KeepsGoing(_, _)
ClearComponentsFrom_KeepsGoing(o, i) ==
  IF i > Len(o.messages) THEN o
  ELSE IF ~o.ok
    THEN ClearComponentsFrom_KeepsGoing(
           [o EXCEPT !.messages[i].components = NoComponents,
                     !.nops = @ + 1], i + 1)
  ELSE ClearComponentsFrom_KeepsGoing(
         edit_components(o, i, NoComponents), i + 1)

\* for msg in &mut self.messages { msg.edit(set_components(default))? }
RECURSIVE ClearComponentsFrom(_, _)
ClearComponentsFrom(o, i) ==
  IF ~o.ok \/ i > Len(o.messages) THEN o
  ELSE ClearComponentsFrom(edit_components(o, i, NoComponents), i + 1)

\* for chunk in self.chunks[n..].iter() { reply; push }, from chunk i on
RECURSIVE ReplyChunksFrom(_, _)
ReplyChunksFrom(o, i) ==
  IF ~o.ok \/ i > Len(o.chunks) THEN o
  ELSE ReplyChunksFrom(reply_and_push(o, o.chunks[i]), i + 1)

\* Mutant of sync_messages_with_chunks: the new messages start at the chunk
\* of the last existing message instead of the chunk after it.
sync_messages_ResendsLastChunk(o) ==
  IF ~o.ok THEN o
  ELSE
    LET k == IF Len(o.messages) <= Len(o.chunks)
               THEN Len(o.messages) ELSE Len(o.chunks)
        o1 == IF k >= 1 THEN edit_content(o, k, o.chunks[k]) ELSE o
    IN  IF ~o1.ok \/ Len(o1.chunks) <= Len(o1.messages) THEN o1
        ELSE
          LET o2 == ClearComponentsFrom(o1, 1)
          IN  IF ~o2.ok \/ o2.messages = <<>> THEN o2
              ELSE
                LET first_id == o2.messages[1].id
                    o3 == ReplyChunksFrom(o2, Len(o2.messages))
                IN  IF ~o3.ok THEN o3
                    ELSE add_cancel_button(o3, first_id, Len(o3.messages))

\* Mutant of sync_messages_with_chunks: the components of the existing
\* messages are not cleared before the new messages are posted.
sync_messages_KeepsOldButton(o) ==
  IF ~o.ok THEN o
  ELSE
    LET k == IF Len(o.messages) <= Len(o.chunks)
               THEN Len(o.messages) ELSE Len(o.chunks)
        o1 == IF k >= 1 THEN edit_content(o, k, o.chunks[k]) ELSE o
    IN  IF ~o1.ok \/ Len(o1.chunks) <= Len(o1.messages) THEN o1
        ELSE
          IF o1.messages = <<>> THEN o1
          ELSE
            LET first_id == o1.messages[1].id
                o3 == ReplyChunksFrom(o1, Len(o1.messages) + 1)
            IN  IF ~o3.ok THEN o3
                ELSE add_cancel_button(o3, first_id, Len(o3.messages))

\* Mutant of sync_messages_with_chunks: the first step always edits the
\* first message, with the first chunk.
sync_messages_EditsFirstUnit(o) ==
  IF ~o.ok THEN o
  ELSE
    LET k == IF Len(o.messages) >= 1 /\ Len(o.chunks) >= 1 THEN 1 ELSE 0
        o1 == IF k >= 1 THEN edit_content(o, k, o.chunks[k]) ELSE o
    IN  IF ~o1.ok \/ Len(o1.chunks) <= Len(o1.messages) THEN o1
        ELSE
          LET o2 == ClearComponentsFrom(o1, 1)
          IN  IF ~o2.ok \/ o2.messages = <<>> THEN o2
              ELSE
                LET first_id == o2.messages[1].id
                    o3 == ReplyChunksFrom(o2, Len(o2.messages) + 1)
                IN  IF ~o3.ok THEN o3
                    ELSE add_cancel_button(o3, first_id, Len(o3.messages))

\* Outputter::sync_messages_with_chunks
sync_messages_with_chunks(o) ==
  IF ~o.ok THEN o
  ELSE
    LET k == IF Len(o.messages) <= Len(o.chunks)
               THEN Len(o.messages) ELSE Len(o.chunks)
        o1 == IF k >= 1 THEN edit_content(o, k, o.chunks[k]) ELSE o
    IN  IF ~o1.ok \/ Len(o1.chunks) <= Len(o1.messages) THEN o1
        ELSE
          LET o2 == ClearComponentsFrom(o1, 1)
          IN  IF ~o2.ok \/ o2.messages = <<>> THEN o2
              ELSE
                LET first_id == o2.messages[1].id
                    o3 == ReplyChunksFrom(o2, Len(o2.messages) + 1)
                IN  IF ~o3.ok THEN o3
                    ELSE add_cancel_button(o3, first_id, Len(o3.messages))

\* Outputter::new_token; `due` is last_update.elapsed() > last_update_duration
new_token(o, token, due) ==
  IF o.in_terminal_state THEN o
  ELSE
    LET o1 == IF o.message = <<>> /\ o.messages # <<>>
                THEN add_cancel_button(o, o.messages[1].id, 1) ELSE o
    IN  IF ~o1.ok THEN o1
        ELSE
          LET o2 == [o1 EXCEPT
                 !.message = @ \o token,
                 !.chunks = ChunksOf(
                    make_markdown_message(o1.prompts, o1.message \o token))]
          IN  IF due THEN sync_messages_with_chunks(o2) ELSE o2

\* Outputter::finish
finish(o) == sync_messages_with_chunks(ClearComponentsFrom(o, 1))

\* Mutant of StrikeFrom: strikes through the current chunk of the message's
\* index, where there is one, instead of the content the message shows.
RECURSIVE StrikeFrom_StrikesChunk(_, _)
StrikeFrom_StrikesChunk(o, i) ==
  IF ~o.ok \/ i > Len(o.messages) THEN o
  ELSE StrikeFrom_StrikesChunk(
         edit_both(o, i,
           Strike(IF i <= Len(o.chunks) THEN o.chunks[i]
                  ELSE o.messages[i].content),
           NoComponents), i + 1)

\* for msg in &mut self.messages { edit(set_components(default).content(~~c~~)) }
RECURSIVE StrikeFrom(_, _)
StrikeFrom(o, i) ==
  IF ~o.ok \/ i > Len(o.messages) THEN o
  ELSE StrikeFrom(
         edit_both(o, i, Strike(o.messages[i].content), NoComponents), i + 1)

\* Outputter::on_error
on_error(o, error_message) ==
  LET o1 == StrikeFrom(o, 1)
  IN  IF ~o1.ok \/ o1.messages = <<>> THEN o1
      ELSE
        LET o2 == reply_only(o1, error_message)
        IN  IF ~o2.ok THEN o2 ELSE [o2 EXCEPT !.in_terminal_state = TRUE]

\* Outputter::cancelled and Outputter::error
cancelled(o) == on_error(o, Cancelled)
error(o, err) == on_error(o, err)

\* ---- one call of a text function: arguments and result -------------------
NoCall == [fn |-> "none", text |-> <<>>, prefix |-> <<>>, user |-> <<>>,
           suffix |-> <<>>]
NoResult == [done |-> FALSE, value |-> <<>>]

\* ---- hallucinate: the loop over the token stream (SpecOut) ---------------
MaxTokens == 3
LongWord == <<"X">>
Fragments == {<<>>, <<"a">>, <<" ">>, LongWord, LongWord \o <<" ">>}
Templates == {PLACEHOLDER, <<"Q", " ">> \o PLACEHOLDER \o <<"\n">>}
UserPrompts == {<<"a">>, LongWord \o <<" ", "a">>}

\* Outputter::new: the interaction response is the first message.
OutputterNew(show, template, user) ==
  /\ prompts = MakePrompts(show, template, user)
  /\ user_id = Initiator(1)
  /\ messages = <<NewMessage(1,
        Strike(IF show THEN Replace(template, PLACEHOLDER, user) ELSE user), 0)>>
  /\ chunks = <<>>
  /\ message = <<>>
  /\ in_terminal_state = FALSE
  /\ replies = <<>>
  /\ opc = "loop"
  /\ ntok = 0
  /\ last_op = [op |-> "new", sync |-> FALSE, fail |-> 0, calls |-> 0]

\* the method returned o: store the Outputter; on Err hallucinate returns.
Store(o, pc_ok) ==
  /\ messages' = o.messages
  /\ chunks' = o.chunks
  /\ message' = o.message
  /\ in_terminal_state' = o.in_terminal_state
  /\ replies' = o.replies
  /\ opc' = IF o.ok THEN pc_ok ELSE "failed"
  /\ UNCHANGED <<prompts, user_id, wvars, poll_log, fvars>>

\* Token::Token(t) => outputter.new_token(&t).await?
OutNewToken(t, due) ==
  /\ opc = "loop"
  /\ ntok < MaxTokens
  /\ ntok' = ntok + 1
  /\ \E f \in 0..new_token(Working(0), t, due).nops :
       /\ Store(new_token(Working(f), t, due), "loop")
       /\ last_op' = [op |-> "new_token", sync |-> due, fail |-> f,
                      calls |-> new_token(Working(f), t, due).nops]

\* Token::Error(Cancelled) => outputter.cancelled().await?; break
OutCancelled ==
  /\ opc = "loop"
  /\ UNCHANGED ntok
  /\ \E f \in 0..cancelled(Working(0)).nops :
       /\ Store(cancelled(Working(f)), "errored")
       /\ last_op' = [op |-> "cancelled", sync |-> FALSE, fail |-> f,
                      calls |-> cancelled(Working(f)).nops]

\* Token::Error(Custom(m)) => outputter.error(&m).await?; break
OutError(m) ==
  /\ opc = "loop"
  /\ UNCHANGED ntok
  /\ \E f \in 0..error(Working(0), m).nops :
       /\ Store(error(Working(f), m), "errored")
       /\ last_op' = [op |-> "error", sync |-> FALSE, fail |-> f,
                      calls |-> error(Working(f), m).nops]

\* the stream ended without an error: outputter.finish().await?
OutFinish ==
  /\ opc = "loop"
  /\ UNCHANGED ntok
  /\ \E f \in 0..finish(Working(0)).nops :
       /\ Store(finish(Working(f)), "finished")
       /\ last_op' = [op |-> "finish", sync |-> TRUE, fail |-> f,
                      calls |-> finish(Working(f)).nops]

\* format!("Error: {err}") for the error of a transport call; one symbol
\* stands for the whole text.
ErrorReport == <<"Error: transport call failed">>

\* DiscordInteraction::create_or_edit on the command's interaction, whose
\* response is messages[1]: `got` is the outcome of get_interaction_message,
\* `done` the outcome of the edit (got) or of the create (~got).
create_or_edit(msgs, reps, text, got, done) ==
  IF ~done THEN [messages |-> msgs, replies |-> reps]
  ELSE IF got
    THEN [messages |-> [msgs EXCEPT ![1].content = text], replies |-> reps]
  ELSE [messages |-> msgs,
        replies |-> Append(reps,
                      NewMessage(Len(msgs) + Len(reps) + 1, text, 0))]

\* run_and_report_error: hallucinate has returned Err; the report is made
\* with create_or_edit and its result unwrapped, so a failed report panics.
run_and_report_error ==
  /\ opc = "failed"
  /\ \E got \in BOOLEAN, done \in BOOLEAN :
       /\ messages' =
            create_or_edit(messages, replies, ErrorReport, got, done).messages
       /\ replies' =
            create_or_edit(messages, replies, ErrorReport, got, done).replies
       /\ opc' = IF done THEN "reported" ELSE "panicked"
  /\ last_op' = [last_op EXCEPT !.op = "report"]
  /\ UNCHANGED <<prompts, user_id, chunks, message, in_terminal_state, ntok,
                 wvars, poll_log, fvars>>

Init ==
  /\ request_rx = <<>>
  /\ cancel_rx = <<>>
  /\ token_ch = [j \in Jobs |-> <<>>]
  /\ rx_alive = [j \in Jobs |-> TRUE]
  /\ tx_closed = [j \in Jobs |-> FALSE]
  /\ jstate = [j \in Jobs |-> "new"]
  /\ wpc = "recv"
  /\ cur = 0
  /\ wres = "none"
  /\ ncb = [j \in Jobs |-> 0]
  /\ observed = [j \in Jobs |-> FALSE]
  /\ submit_log = <<>>
  /\ start_log = <<>>
  /\ creq = [j \in Jobs |-> FALSE]
  /\ creq0 = [j \in Jobs |-> FALSE]
  /\ polled_after = [j \in Jobs |-> FALSE]
  /\ ncancel = 0
  /\ poll_log = <<>>
  /\ fin = NoCall
  /\ fout = NoResult
  /\ OutputterNew(TRUE, PLACEHOLDER, <<"a">>)

Next ==
  \/ \E j \in Jobs : Submit(j)
  \/ \E j \in Jobs : DropReceiver(j)
  \/ \E mid \in CancelIds, uid \in Users, user \in Users :
       InteractionCancel(mid, uid, user)
  \/ WorkerRecv
  \/ WorkerRecvEmpty
  \/ WorkerSleep
  \/ \E t \in {"text", "eot"} : Callback(t)
  \/ BackendEnd
  \/ BackendError
  \/ WorkerReturn

Spec == Init /\ [][Next]_vars

\* The worker thread is scheduled: each step of its loop that stays possible
\* is taken (try_recv, the sleep, the match on the result), and
\* session.infer returns, with Ok or with an error, after finitely many
\* callbacks.
WorkerFair ==
  /\ WF_vars(WorkerRecv)
  /\ WF_vars(WorkerRecvEmpty)
  /\ WF_vars(WorkerSleep)
  /\ WF_vars(WorkerReturn)
  /\ WF_vars(BackendEnd \/ BackendError)

SpecLive == Init /\ [][Next]_vars /\ WorkerFair

\* ---- SpecDrain: the cancel channel under arbitrary callers ---------------
MaxPolls == 2
MaxPending == 2

\* RequestCancel(id): the send of interaction_create.
RequestCancel(id) ==
  /\ Len(cancel_rx) < MaxPending
  /\ cancel_rx' = CancelSend(cancel_rx, id)
  /\ poll_log' = <<>>
  /\ UNCHANGED <<request_rx, token_ch, rx_alive, tx_closed, jstate, wpc, cur,
                 wres, ncb, observed, submit_log, start_log, creq, creq0,
                 polled_after, fvars, ovars, ncancel>>

\* DrainAndCheck(id): the first two lines of the callback, for any id.
\* poll_log keeps the polls made since the last RequestCancel.
PollFor(id) ==
  /\ Len(poll_log) < MaxPolls
  /\ LET d == DrainAndCheck(cancel_rx, id) IN
       /\ cancel_rx' = d.rest
       /\ poll_log' = Append(poll_log,
            [id |-> id, before |-> cancel_rx, found |-> d.found])
  /\ UNCHANGED <<request_rx, token_ch, rx_alive, tx_closed, jstate, wpc, cur,
                 wres, ncb, observed, submit_log, start_log, creq, creq0,
                 polled_after, fvars, ovars, ncancel>>

\* A press of a cancel button with custom id "cancel#mid#uid" by `user`,
\* as interaction_create handles it; fin keeps the press and the channel
\* before and after it.
Activation(mid, uid, user) ==
  /\ Len(cancel_rx) < MaxPending
  /\ cancel_rx' = interaction_create(cancel_rx, mid, uid, user)
  /\ poll_log' = IF cancel_rx' # cancel_rx THEN <<>> ELSE poll_log
  /\ fin' = [fn |-> "activation", mid |-> mid, uid |-> uid, user |-> user,
             before |-> cancel_rx, after |-> cancel_rx']
  /\ UNCHANGED <<request_rx, token_ch, rx_alive, tx_closed, jstate, wpc, cur,
                 wres, ncb, observed, submit_log, start_log, creq, creq0,
                 polled_after, fout, ovars, ncancel>>

NextDrain ==
  \/ \E id \in CancelIds : RequestCancel(id)
  \/ \E id \in CancelIds : PollFor(id)
  \/ \E mid \in CancelIds, uid \in Users, user \in Users :
       Activation(mid, uid, user)

SpecDrain == Init /\ [][NextDrain]_vars

InitOut ==
  /\ request_rx = <<>>
  /\ cancel_rx = <<>>
  /\ token_ch = [j \in Jobs |-> <<>>]
  /\ rx_alive = [j \in Jobs |-> TRUE]
  /\ tx_closed = [j \in Jobs |-> FALSE]
  /\ jstate = [j \in Jobs |-> "new"]
  /\ wpc = "recv"
  /\ cur = 0
  /\ wres = "none"
  /\ ncb = [j \in Jobs |-> 0]
  /\ observed = [j \in Jobs |-> FALSE]
  /\ submit_log = <<>>
  /\ start_log = <<>>
  /\ creq = [j \in Jobs |-> FALSE]
  /\ creq0 = [j \in Jobs |-> FALSE]
  /\ polled_after = [j \in Jobs |-> FALSE]
  /\ ncancel = 0
  /\ poll_log = <<>>
  /\ fin = NoCall
  /\ fout = NoResult
  /\ \E show \in BOOLEAN, template \in Templates, user \in UserPrompts :
       OutputterNew(show, template, user)

NextOut ==
  \/ \E t \in Fragments, due \in BOOLEAN : OutNewToken(t, due)
  \/ OutCancelled
  \/ \E m \in {BackendFailed} : OutError(m)
  \/ OutFinish
  \/ run_and_report_error

SpecOut == InitOut /\ [][NextOut]_vars

\* ---- SpecText: the text functions on bounded inputs ----------------------
MaxLen == 4
Alphabet == {"a", " ", "X"}
Texts == UNION {[1..k -> Alphabet] : k \in 0..MaxLen}
Prefixes == {<<>>, <<"Q", " ">>}
Suffixes == {<<>>, <<"\n">>, <<" ", "a">>}
DecoupledUsers == {<<>>, <<"a">>, <<"a", " ">>}

\* A display text of equal words "W" joined by single spaces, one word
\* more than the words that fill a chunk to MESSAGE_CHUNK_SIZE bytes
\* exactly (79 words of 18 bytes and 78 spaces are 1500 bytes).
FillText ==
  [i \in 1..(2 * ((MESSAGE_CHUNK_SIZE + 1) \div 19) + 1) |->
     IF i % 2 = 1 THEN "W" ELSE " "]

\* the display text handed to the chunking loop of new_token
ChunkCalls ==
  {[fn |-> "chunk", text |-> t, prefix |-> <<>>, user |-> <<>>,
    suffix |-> <<>>] : t \in Texts \cup {FillText}}

\* a command template prefix{{PROMPT}}suffix, a user prompt, and the tail
\* (text) the model produced after echoing the processed prompt
DecoupleCalls ==
  {[fn |-> "decouple", text |-> t, prefix |-> pre, user |-> u, suffix |-> suf] :
     t \in Texts, pre \in Prefixes, u \in DecoupledUsers, suf \in Suffixes}

TemplateOf(c) == c.prefix \o PLACEHOLDER \o c.suffix
RawOutputOf(c) == c.prefix \o c.user \o c.suffix \o c.text

\* self.message as make_markdown_message can receive it: the model's echo
\* of the processed prompt cut anywhere, or followed by a short tail, or a
\* short text that does not echo the prompt
Tails == {t \in Texts : Len(t) <= 2}
MessagesFor(pre, u, suf) ==
  Tails \cup
  UNION {{SubSeq(pre \o u \o suf \o t, 1, k) :
            k \in 0..Len(pre \o u \o suf \o t)} : t \in Tails}
MarkdownCalls ==
  UNION {{[fn |-> f, text |-> m, prefix |-> pre, user |-> u, suffix |-> suf] :
            m \in MessagesFor(pre, u, suf),
            f \in {"markdown_template", "markdown_decoupled"}} :
         pre \in Prefixes, u \in DecoupledUsers, suf \in Suffixes}

\* self.chunks = { ... } of new_token on the display text
ApplyChunk ==
  /\ fin.fn = "chunk"
  /\ ~fout.done
  /\ fout' = [done |-> TRUE, value |-> ChunksOf(fin.text)]
  /\ UNCHANGED <<wvars, poll_log, fin, ovars>>

\* self.decouple_prompt_from_message(message) of make_markdown_message
ApplyDecouple ==
  /\ fin.fn = "decouple"
  /\ ~fout.done
  /\ fout' = [done |-> TRUE,
              value |-> decouple_prompt_from_message(
                          MakePrompts(FALSE, TemplateOf(fin), fin.user),
                          RawOutputOf(fin))]
  /\ UNCHANGED <<wvars, poll_log, fin, ovars>>

\* let markdown = self.prompts.make_markdown_message(&self.message)
ApplyMarkdown ==
  /\ fin.fn \in {"markdown_template", "markdown_decoupled"}
  /\ ~fout.done
  /\ fout' = [done |-> TRUE,
              value |-> make_markdown_message(
                          MakePrompts(fin.fn = "markdown_template",
                                      TemplateOf(fin), fin.user),
                          fin.text)]
  /\ UNCHANGED <<wvars, poll_log, fin, ovars>>

InitText ==
  /\ request_rx = <<>>
  /\ cancel_rx = <<>>
  /\ token_ch = [j \in Jobs |-> <<>>]
  /\ rx_alive = [j \in Jobs |-> TRUE]
  /\ tx_closed = [j \in Jobs |-> FALSE]
  /\ jstate = [j \in Jobs |-> "new"]
  /\ wpc = "recv"
  /\ cur = 0
  /\ wres = "none"
  /\ ncb = [j \in Jobs |-> 0]
  /\ observed = [j \in Jobs |-> FALSE]
  /\ submit_log = <<>>
  /\ start_log = <<>>
  /\ creq = [j \in Jobs |-> FALSE]
  /\ creq0 = [j \in Jobs |-> FALSE]
  /\ polled_after = [j \in Jobs |-> FALSE]
  /\ ncancel = 0
  /\ poll_log = <<>>
  /\ fin \in ChunkCalls \cup DecoupleCalls \cup MarkdownCalls
  /\ fout = NoResult
  /\ OutputterNew(TRUE, PLACEHOLDER, <<"a">>)

NextText ==
  \/ ApplyChunk
  \/ ApplyDecouple
  \/ ApplyMarkdown

SpecText == InitText /\ [][NextText]_vars

\* ---------------------------------------------------------------------------
\* Claims about the worker (Spec) and the cancel channel (SpecDrain)
\* ---------------------------------------------------------------------------

ErrorsOf(j) == {i \in 1..Len(token_ch[j]) : IsError(token_ch[j][i])}

\* C1: on every job's result channel there is at most one Failure token
\* (Token::Error) and no item follows it: the Failure, if any, is last.
C1_AtMostOneFailureAndLast ==
  \A j \in Jobs :
    /\ Cardinality(ErrorsOf(j)) <= 1
    /\ \A i \in ErrorsOf(j) : i = Len(token_ch[j])

\* C1 witness: a finished job whose channel holds a fragment first and the
\* Failure last.
C1_Witness ==
  \E j \in Jobs :
    /\ jstate[j] = "done"
    /\ Len(token_ch[j]) >= 2
    /\ IsFragment(token_ch[j][1])
    /\ IsError(token_ch[j][Len(token_ch[j])])

\* C2 (as claimed): a job for which a cancel was sent before it completed,
\* and which polled afterwards (the backend kept producing), ends with
\* Failure(Cancelled) as the last item of its channel (receiver still there).
C2_CancelBeforeCompletionCancels ==
  \A j \in Jobs :
    (jstate[j] = "done" /\ creq[j] /\ polled_after[j] /\ rx_alive[j])
      => /\ token_ch[j] # <<>>
         /\ token_ch[j][Len(token_ch[j])] = ErrorOf(Cancelled)

\* C3: the poll comes before the forward. On the step whose poll finds the
\* job's id nothing is put on the channel; afterwards the only item ever put
\* on it is one Failure(Cancelled); and a finished job whose receiver still
\* exists has that Failure as its last item.
C3_PollStep ==
  \A j \in Jobs :
    /\ (observed'[j] /\ ~observed[j]) => token_ch'[j] = token_ch[j]
    /\ observed[j] =>
         \/ token_ch'[j] = token_ch[j]
         \/ /\ token_ch'[j] = Append(token_ch[j], ErrorOf(Cancelled))
            /\ ErrorsOf(j) = {}

C3_Final ==
  \A j \in Jobs :
    (observed[j] /\ jstate[j] = "done" /\ rx_alive[j])
      => /\ token_ch[j] # <<>>
         /\ token_ch[j][Len(token_ch[j])] = ErrorOf(Cancelled)

C3_CancelPollStopsFragments == [][C3_PollStep]_vars /\ []C3_Final

\* C3 witness: a job was cancelled by its second poll: one fragment, then
\* Failure(Cancelled), and nothing else.
C3_Witness ==
  \E j \in Jobs :
    /\ observed[j]
    /\ jstate[j] = "done"
    /\ ncb[j] = 2
    /\ token_ch[j] = <<TokenOf(1), ErrorOf(Cancelled)>>

Running == {j \in Jobs : jstate[j] = "running"}

\* C4: at most one request is in flight (received by the worker and not yet
\* finished), it is the one the worker holds, and the worker receives a
\* request only when none is in flight.
C4_OneRunning ==
  /\ Cardinality(Running) <= 1
  /\ \A j \in Running : cur = j

C4_RecvStep == (start_log' # start_log) => Running = {}

C4_AtMostOneInFlight == []C4_OneRunning /\ [][C4_RecvStep]_vars

\* C4 witness: a second request was received, after the first had finished,
\* and is now in flight.
C4_Witness ==
  /\ Len(start_log) = 2
  /\ jstate[start_log[1]] = "done"
  /\ jstate[start_log[2]] = "running"

\* C5: requests are started in the order they were submitted, and each is
\* finished before the next one is started.
C5_FifoOrder ==
  /\ IsPrefixOf(start_log, submit_log)
  /\ \A i \in 1..Len(start_log) :
       i < Len(start_log) => jstate[start_log[i]] = "done"

\* C5 witness: two requests were submitted, job 2 first, and both started.
C5_Witness ==
  /\ submit_log = <<2, 1>>
  /\ Len(start_log) = 2

\* C6: two polls in a row for the same id with no RequestCancel between
\* them, the id pending before the first (once or several times): the first
\* finds it and the second does not.
C6_DrainTwice ==
  \A i \in 1..Len(poll_log) :
    (i < Len(poll_log)
       /\ poll_log[i].id = poll_log[i + 1].id
       /\ poll_log[i].id \in Range(poll_log[i].before))
      => /\ poll_log[i].found
         /\ ~poll_log[i + 1].found

\* C6 witness: the id was requested twice, then polled twice.
C6_Witness ==
  /\ Len(poll_log) = 2
  /\ poll_log[1].id = poll_log[2].id
  /\ poll_log[1].before = <<poll_log[1].id, poll_log[1].id>>

\* C7 (as claimed): a job for which a cancel was sent after its submission
\* and before any callback of it, and which then polled at least once, has
\* exactly one item on its channel, Failure(Cancelled) (receiver still there).
C7_EarlyCancelYieldsOnlyFailure ==
  \A j \in Jobs :
    (jstate[j] = "done" /\ creq0[j] /\ ncb[j] >= 1 /\ rx_alive[j])
      => token_ch[j] = <<ErrorOf(Cancelled)>>

\* ---------------------------------------------------------------------------
\* Claims about the Outputter (SpecOut)
\* ---------------------------------------------------------------------------

WithButton == {i \in 1..Len(messages) : messages[i].components # NoComponents}

\* C8 (as claimed): in every state of the Outputter there are at most as
\* many units (messages) as chunks.
C8_UnitsAtMostChunks == Len(messages) <= Len(chunks)

\* C8 (amended): whenever an operation adds units, there are afterwards at
\* most as many units as chunks (a pass never creates a unit without a chunk).
C8_CreatedUnitsAtMostChunks ==
  [][Len(messages') > Len(messages) => Len(messages') <= Len(chunks')]_vars

\* C8 witness: a pass has created units and every chunk has its unit.
C8_Witness ==
  /\ opc = "loop"
  /\ Len(messages) >= 2
  /\ Len(messages) = Len(chunks)

\* C8, the second way the claimed inequality fails (a statement that would
\* hold if it did not): once a fragment has been processed there are at most
\* as many units as chunks. It fails when the display text is recomputed to
\* fewer chunks than there are units.
C8_UnitsAtMostChunksAfterFirstToken ==
  (opc = "loop" /\ message # <<>>) => Len(messages) <= Len(chunks)

\* C9 (as claimed, from the first fragment on): while hallucinate is in its
\* loop and a fragment has been processed, exactly one unit carries the
\* cancel button and it is the last unit.
C9_OneButtonOnLastUnit ==
  (opc = "loop" /\ ntok >= 1) => WithButton = {Len(messages)}

\* C10 (as claimed): after finish, cancelled or error has returned Ok, no
\* unit carries the cancel button.
C10_NoButtonAfterTerminal ==
  opc \in {"finished", "errored"} => WithButton = {}

\* C15: a press of the cancel button by a user other than the one named in
\* the button's custom id (the job's initiator) leaves the cancel channel as
\* it was: nothing is sent.
C15_ForeignPressIgnored ==
  (fin.fn = "activation" /\ fin.user # fin.uid) => fin.after = fin.before

\* C15 witness: a press by another user while an entry was pending.
C15_Witness ==
  /\ fin.fn = "activation"
  /\ fin.user # fin.uid
  /\ fin.before # <<>>
  /\ fin.mid \in Jobs

\* C20: a poll takes every pending entry off the channel, whatever id it
\* names: the channel is empty after it, and the next poll (no send in
\* between) starts from an empty channel and finds nothing, whichever id it
\* asks for.
C20_PollRemovesAll ==
  /\ poll_log # <<>> => cancel_rx = <<>>
  /\ \A i \in 2..Len(poll_log) :
       poll_log[i].before = <<>> /\ ~poll_log[i].found

\* C20 witness: a poll for one id met a pending entry naming another id; the
\* next poll asked for that other id.
C20_Witness ==
  /\ Len(poll_log) = 2
  /\ \E id \in Range(poll_log[1].before) :
       id # poll_log[1].id /\ poll_log[2].id = id

\* Once a request is finished nothing more is put on its channel and the
\* backend makes no further callback for it.
DoneIsFrozen ==
  \A j \in Jobs :
    jstate[j] = "done" => token_ch'[j] = token_ch[j] /\ ncb'[j] = ncb[j]

\* C16: a fragment whose send fails (receiver gone) ends the generation at
\* that fragment: the callback puts nothing on the channel and infer returns;
\* from then on no callback is made and no token, Failure included, reaches
\* the channel; the worker drops the request and is free for the next one,
\* the request queue untouched.
C16_FailStep ==
  (wres' = SendFailed /\ wres # SendFailed)
    => /\ ~rx_alive[cur]
       /\ token_ch' = token_ch
       /\ wpc' = "ret"

C16_AfterFailStep ==
  wres = SendFailed
    => /\ token_ch' = token_ch
       /\ ncb' = ncb
       /\ wpc' # wpc =>
            /\ jstate'[cur] = "done"
            /\ cur' = 0
            /\ wpc' = "sleep"
            /\ request_rx' = request_rx

C16_SendFailureAbortsSilently ==
  [][C16_FailStep /\ C16_AfterFailStep /\ DoneIsFrozen]_vars

\* C16 witness: the receiver went away after a fragment had been delivered,
\* the next send failed, and another request is waiting in the queue.
C16_Witness ==
  /\ wres = SendFailed
  /\ token_ch[cur] # <<>>
  /\ request_rx # <<>>

\* C17: when infer returns Ok (end of output, no cancellation observed, no
\* backend error) the channel holds fragments only, the worker puts nothing
\* more on it and drops the sender, which closes the channel.
C17_OkState ==
  wres = "Ok" => ErrorsOf(cur) = {} /\ ~observed[cur]

C17_OkStep ==
  (wres = "Ok" /\ wpc' # wpc)
    => /\ token_ch' = token_ch
       /\ tx_closed'[cur]
       /\ jstate'[cur] = "done"

C18_ErrorStep ==
  (wres = BackendFailed /\ wpc' # wpc)
    => /\ token_ch' = [token_ch EXCEPT ![cur] =
            IF rx_alive[cur] THEN Append(@, ErrorOf(BackendFailed)) ELSE @]
       /\ jstate'[cur] = "done"

C18_Exclusive ==
  \A j \in Jobs :
    /\ Cardinality(ErrorsOf(j)) <= 1
    /\ ~(/\ ErrorOf(Cancelled) \in Range(token_ch[j])
         /\ \E i \in ErrorsOf(j) : token_ch[j][i] # ErrorOf(Cancelled))

C18_BackendErrorSendsOneFailure ==
  []C18_Exclusive /\ [][C18_ErrorStep /\ DoneIsFrozen]_vars

\* C18 witness: a finished request whose channel holds a fragment and then
\* the backend's Failure, while a cancel for it was on the channel.
C18_Witness ==
  \E j \in Jobs :
    /\ jstate[j] = "done"
    /\ token_ch[j] = <<TokenOf(1), ErrorOf(BackendFailed)>>
    /\ creq[j]

\* ---------------------------------------------------------------------------
\* Claims about the text functions (SpecText)
\* ---------------------------------------------------------------------------

\* the chunks from the i-th on, joined with one space between consecutive ones
RECURSIVE JoinWithSpaces(_, _)
JoinWithSpaces(cs, i) ==
  IF i > Len(cs) THEN <<>>
  ELSE IF i = Len(cs) THEN cs[i]
  ELSE cs[i] \o <<" ">> \o JoinWithSpaces(cs, i + 1)

\* C11: joining the chunks of a display text with single spaces gives back
\* the display text exactly (chunk boundaries fall on spaces only; nothing is
\* lost or duplicated).
C11_ChunkRoundTrip ==
  (fin.fn = "chunk" /\ fout.done) => JoinWithSpaces(fout.value, 1) = fin.text

\* C11 witness: a text with two spaces in a row was split into at least two
\* chunks, one of which begins with a space.
C11_Witness ==
  /\ fin.fn = "chunk"
  /\ fout.done
  /\ Len(fout.value) >= 2
  /\ \E i \in 1..Len(fout.value) :
       fout.value[i] # <<>> /\ fout.value[i][1] = " "

\* C12 (as claimed): no chunk of a non-empty display text is empty.
C12_NoEmptyChunk ==
  (fin.fn = "chunk" /\ fout.done /\ fin.text # <<>>)
    => \A i \in 1..Len(fout.value) : fout.value[i] # <<>>

\* C13: for template prefix{{PROMPT}}suffix and raw output
\* prefix + user + suffix + X, the decoupled text is user + X, with a newline
\* between them when the suffix ends in one.
C13_DecoupleRightInverse ==
  (fin.fn = "decouple" /\ fout.done)
    => fout.value =
         fin.user
           \o (IF fin.suffix # <<>> /\ fin.suffix[Len(fin.suffix)] = "\n"
                 THEN <<"\n">> ELSE <<>>)
           \o fin.text

\* C13 witness: non-empty prefix, prompt and tail, suffix ending in a newline.
C13_Witness ==
  /\ fin.fn = "decouple"
  /\ fout.done
  /\ fin.prefix # <<>>
  /\ fin.user # <<>>
  /\ fin.suffix = <<"\n">>
  /\ fin.text # <<>>

\* ---------------------------------------------------------------------------
\* More claims about the Outputter (SpecOut)
\* ---------------------------------------------------------------------------

\* C14: a call that runs a synchronization pass and returns Ok, the pass
\* starting with more chunks than units, leaves exactly one unit per chunk:
\* the old units are kept, each new unit carries its chunk, and the cancel
\* button is on the last unit only.
C14_PassStep ==
  (/\ opc = "loop"
   /\ opc' \in {"loop", "finished"}
   /\ last_op'.sync
   /\ Len(chunks') > Len(messages))
    => /\ Len(messages') = Len(chunks')
       /\ \A i \in 1..Len(messages) : messages'[i].id = messages[i].id
       /\ \A i \in (Len(messages) + 1)..Len(messages') :
            messages'[i].content = chunks'[i]
       /\ {i \in 1..Len(messages') :
             messages'[i].components # NoComponents} = {Len(messages')}

C14_PassCreatesMissingUnits == [][C14_PassStep]_vars

\* C14 witness: the text has three chunks, a pass has run, there are three
\* units and the button is on the third only.
C14_Witness ==
  /\ opc = "loop"
  /\ last_op.sync
  /\ Len(chunks) = 3
  /\ Len(messages) = 3
  /\ WithButton = {3}

\* C19 (as claimed): once cancelled, error or finish has returned Ok the
\* terminal flag is set, and a new_token call made then changes neither the
\* accumulated text, nor the chunks, nor any message.
C19_TerminalFlagStopsTokens ==
  opc \in {"finished", "errored"}
    => /\ in_terminal_state
       /\ \A t \in Fragments, due \in BOOLEAN :
            LET r == new_token(Working(0), t, due) IN
              /\ r.message = message
              /\ r.chunks = chunks
              /\ r.messages = messages

\* ---- More claims about the cancellation channel (SpecDrain) ---------------

\* C21: a poll reports the job cancelled exactly when at least one request
\* for it was pending, however many times it was requested and whatever
\* other ids (finished jobs, ids of no job) were pending with it; and every
\* later poll before the next request finds nothing for any job.
C21_CancelIdempotentAndHarmless ==
  \A i \in 1..Len(poll_log) :
    /\ poll_log[i].found
         = (\E k \in 1..Len(poll_log[i].before) :
              poll_log[i].before[k] = poll_log[i].id)
    /\ i > 1 => ~poll_log[i].found

\* C21 witness: the same cancel was requested twice and then polled once.
C21_Witness ==
  /\ Len(poll_log) = 1
  /\ Len(poll_log[1].before) = 2
  /\ poll_log[1].before[1] = poll_log[1].id
  /\ poll_log[1].before[2] = poll_log[1].id
  /\ poll_log[1].found

\* ---- Claims about the units of the Outputter (SpecOut) --------------------

\* C22: every operation of the Outputter (new_token, finish, cancelled,
\* error), whether it returns Ok or fails at any transport call, leaves the
\* list of units it found as a prefix of the list it leaves: the same units,
\* by id, at the same positions, possibly followed by new ones.
C22_UnitsAppendOnly ==
  [][/\ Len(messages') >= Len(messages)
     /\ \A i \in 1..Len(messages) : messages'[i].id = messages[i].id]_vars

\* C22 witness: an operation failed after it had created a second unit.
C22_Witness ==
  /\ opc = "failed"
  /\ Len(messages) >= 2
  /\ last_op.op \in {"new_token", "finish"}
  /\ messages[Len(messages)].components = NoComponents

\* C23: every unit after the first was created as a reply to the first unit
\* of the job, also when one pass created several of them.
C23_RepliesAnchoredToFirstUnit ==
  \A i \in 2..Len(messages) : messages[i].reply_to = messages[1].id

\* What the passes do instead: every unit after the first is a reply to the
\* unit before it, and the first unit's id is carried by the cancel button.
C23_RepliesChainToPreviousUnit ==
  /\ \A i \in 2..Len(messages) : messages[i].reply_to = messages[i - 1].id
  /\ \A i \in 1..Len(messages) :
       messages[i].components # NoComponents
         => messages[i].components = CancelButton(messages[1].id, user_id)

\* A step on which a synchronization pass ran to its end, entered with at
\* least one unit and at least one chunk.
C24_PassRan ==
  /\ opc = "loop" /\ opc' # "failed"
  /\ last_op'.op \in {"new_token", "finish"} /\ last_op'.sync
  /\ ~in_terminal_state
  /\ Len(messages) >= 1 /\ Len(chunks') >= 1

C25_UnitsEqualChunksAfterFinish ==
  opc = "finished" =>
    \A i \in 1..Len(chunks) :
      i <= Len(messages) /\ messages[i].content = chunks[i]

\* C26: when a terminal operation (finish, cancelled or error) has returned
\* Ok, a final pass has run: every chunk computed up to then has a unit.
C26_FinalPassOnEveryTerminalEvent ==
  opc \in {"finished", "errored"} => Len(messages) >= Len(chunks)

\* What holds instead: finish runs the final pass; cancelled and error
\* create no unit for the chunks still missing one.
C26_FinalPassOnFinishOnly ==
  /\ [](opc = "finished" => Len(messages) >= Len(chunks))
  /\ [][(opc = "loop" /\ opc' = "errored")
          => Len(messages') = Len(messages)]_vars

\* C27: a cancelled or error operation that returns Ok leaves every unit in
\* place with the content it showed before wrapped in "~~", without
\* components, and posts exactly one more message, after all of them, that
\* carries the error text ("The generation was cancelled." for a
\* cancellation) as a reply to the last unit.
C27_WithdrawStep ==
  (opc = "loop" /\ opc' = "errored") =>
     /\ Len(messages') = Len(messages)
     /\ \A i \in 1..Len(messages) :
          /\ messages'[i].id = messages[i].id
          /\ messages'[i].content = Strike(messages[i].content)
          /\ messages'[i].components = NoComponents
     /\ Len(replies') = Len(replies) + 1
     /\ SubSeq(replies', 1, Len(replies)) = replies
     /\ LET r == replies'[Len(replies')] IN
          /\ r.content = IF last_op'.op = "cancelled"
                           THEN "The generation was cancelled."
                           ELSE BackendFailed
          /\ r.reply_to = messages[Len(messages)].id
          /\ \A i \in 1..Len(messages) : r.id > messages[i].id

C27_WithdrawAndPostError ==
  [][C27_WithdrawStep]_vars

\* C27 witness: a job with two units, whose display text changed after the
\* last pass, was cancelled: both units are struck through and one message
\* with the cancellation text follows.
C27_Witness ==
  /\ opc = "errored" /\ last_op.op = "cancelled"
  /\ Len(messages) = 2
  /\ Len(chunks) >= 1
  /\ messages[1].content # Strike(chunks[1])
  /\ Len(replies) = 1
  /\ replies[1].content = Cancelled

\* ---- More claims about the text functions (SpecText) ----------------------

\* the words of a chunk: the texts between its spaces
C28_WordsOf(chunk) == SplitSpaces(chunk)

C28_LongestWord(chunk) ==
  CHOOSE n \in {Utf8Len(C28_WordsOf(chunk)[k]) :
                  k \in 1..Len(C28_WordsOf(chunk))} :
    \A k \in 1..Len(C28_WordsOf(chunk)) :
      Utf8Len(C28_WordsOf(chunk)[k]) <= n

\* C28 as stated: a chunk of more than one word is at most
\* MESSAGE_CHUNK_SIZE bytes plus the length of one word, taken here as the
\* longest word of the chunk.
C28_OvershootAtMostOneWord ==
  (fin.fn = "chunk" /\ fout.done) =>
    \A i \in 1..Len(fout.value) :
      Len(C28_WordsOf(fout.value[i])) >= 2
        => Utf8Len(fout.value[i])
             <= MESSAGE_CHUNK_SIZE + C28_LongestWord(fout.value[i])

\* C28 amended: a chunk of more than one word is at most MESSAGE_CHUNK_SIZE
\* bytes plus one byte for the joining space plus the length of its last
\* word.
C28_OvershootAtMostSpaceAndLastWord ==
  (fin.fn = "chunk" /\ fout.done) =>
    \A i \in 1..Len(fout.value) :
      LET ws == C28_WordsOf(fout.value[i]) IN
        Len(ws) >= 2
          => Utf8Len(fout.value[i])
               <= MESSAGE_CHUNK_SIZE + 1 + Utf8Len(ws[Len(ws)])

\* C28 witness: a chunk of several words that reaches the amended bound.
C28_Witness ==
  /\ fin.fn = "chunk" /\ fout.done
  /\ \E i \in 1..Len(fout.value) :
       LET ws == C28_WordsOf(fout.value[i]) IN
         /\ Len(ws) >= 2
         /\ Utf8Len(fout.value[i])
              = MESSAGE_CHUNK_SIZE + 1 + Utf8Len(ws[Len(ws)])

\* the reference and the display text of a call of make_markdown_message
C29_Ref ==
  IF fin.fn = "markdown_template"
    THEN fin.prefix \o fin.user \o fin.suffix ELSE fin.user
C29_Display ==
  IF fin.fn = "markdown_template" THEN fin.text
  ELSE decouple_prompt_from_message(
         MakePrompts(FALSE, TemplateOf(fin), fin.user), fin.text)

\* C29: the result of make_markdown_message is "**ref**" followed by the
\* rest of the display text when the display text starts with ref; else,
\* when ref starts with the display text, "~~ref~~" for an empty display
\* text and "**display**~~rest of ref~~" otherwise; else the display text
\* as it is. ref is the processed template in template mode and the user
\* prompt in decoupled mode, where the display text is the decoupled text.
C29_ThreeCaseRule ==
  (fin.fn \in {"markdown_template", "markdown_decoupled"} /\ fout.done) =>
    LET ref == C29_Ref
        display == C29_Display
        stars == <<"*", "*">>
        tildes == <<"~", "~">>
    IN  IF IsPrefixOf(ref, display)
          THEN fout.value = stars \o ref \o stars
                 \o SubSeq(display, Len(ref) + 1, Len(display))
        ELSE IF IsPrefixOf(display, ref)
          THEN IF display = <<>>
                 THEN fout.value = tildes \o ref \o tildes
                 ELSE fout.value = stars \o display \o stars \o tildes
                        \o SubSeq(ref, Len(display) + 1, Len(ref)) \o tildes
        ELSE fout.value = display

\* C29 witness: in decoupled mode the model has echoed a part of the user
\* prompt "a ": the part is bold and the rest is struck through.
C29_Witness ==
  /\ fin.fn = "markdown_decoupled" /\ fout.done
  /\ fin.user = <<"a", " ">>
  /\ fin.prefix # <<>>
  /\ fout.value = <<"*", "*", "a", "*", "*", "~", "~", " ", "~", "~">>

\* ---- Claims about transport failures (SpecOut) ----------------------------

\* the messages on the transport that show the report of the failure
C30_Reports ==
  {i \in 1..Len(messages) : messages[i].content = ErrorReport}
    \cup {-i : i \in {k \in 1..Len(replies) : replies[k].content = ErrorReport}}

\* the failed call was the last transport call of the operation, the
\* Outputter is not used again (no withdrawal, no error reply, no flag), and
\* the one step that follows is the report
C30_AfterFailureStep ==
  opc \in {"failed", "reported", "panicked"} =>
    /\ opc = "failed" /\ last_op'.op = "report"
    /\ chunks' = chunks /\ message' = message
    /\ in_terminal_state' = in_terminal_state
    /\ Len(messages') = Len(messages)
    /\ \A i \in 1..Len(messages) :
         messages'[i].components = messages[i].components

C30_AbortAndReturn ==
  /\ [](opc = "failed" => last_op.fail >= 1 /\ last_op.calls = last_op.fail)
  /\ [][C30_AfterFailureStep]_vars

\* C30 as stated: after a failed transport call the operation makes no
\* further call and returns the failure, and the reporter leaves exactly one
\* "Error: ..." message on the interaction.
C30_FailureAbortsAndIsReported ==
  /\ C30_AbortAndReturn
  /\ [](opc \in {"reported", "panicked"} => Cardinality(C30_Reports) = 1)

\* C30 amended: as above, with the report as create_or_edit makes it: when
\* the reporter's own calls succeed, exactly one message shows the text,
\* which is the interaction's response (the first unit) with its content
\* replaced, or a new response if the existing one could not be fetched;
\* when they fail, nothing shows it and the handler panics.
C30_FailureAbortsAndReportIsTried ==
  /\ C30_AbortAndReturn
  /\ [](opc = "reported" =>
          /\ Cardinality(C30_Reports) = 1
          /\ C30_Reports \subseteq {1, -Len(replies)})
  /\ [](opc = "panicked" => C30_Reports = {})

\* C30 witness: a pass failed after it had created a second unit, and the
\* report replaced the content of the first unit.
C30_Witness ==
  /\ opc = "reported"
  /\ last_op.sync /\ last_op.fail >= 2
  /\ Len(messages) >= 2
  /\ messages[Len(messages)].components = NoComponents
  /\ messages[1].content = ErrorReport

\* ---- Claims about the worker as a whole (Spec) ----------------------------

\* a step of the cancel path: a poll newly finds a job only if the job is
\* the one the worker holds and its own id is pending; a Failure(Cancelled)
\* is put on a job's channel only after such a poll; an entry gets on the
\* cancel channel only through a send of the handler, one at a time.
C31_Step ==
  /\ \A j \in Jobs :
       /\ (observed'[j] /\ ~observed[j])
            => /\ j = cur
               /\ \E k \in 1..Len(cancel_rx) : cancel_rx[k] = j
       /\ (Len(token_ch'[j]) > Len(token_ch[j])
             /\ token_ch'[j][Len(token_ch'[j])] = ErrorOf(Cancelled))
            => observed[j]
  /\ Len(cancel_rx') > Len(cancel_rx)
       => /\ ncancel' = ncancel + 1
          /\ \E mid \in CancelIds : cancel_rx' = Append(cancel_rx, mid)

\* the handler sends for an authorized press only, and sends the id the
\* button names
C31_Authorized ==
  \A mid \in CancelIds, uid \in Users, user \in Users :
    interaction_create(cancel_rx, mid, uid, user) =
      IF user = uid THEN Append(cancel_rx, mid) ELSE cancel_rx

\* C31: a job's channel carries Failure(Cancelled) only if a poll of that
\* job found the job's own id on the cancel channel, where only an
\* authorized press naming that id puts it; a pending request for another
\* job never cancels the job that polls.
C31_NoCrossJobCancellation ==
  /\ [][C31_Step]_vars
  /\ []C31_Authorized
  /\ [](\A j \in Jobs :
          (\E i \in 1..Len(token_ch[j]) : token_ch[j][i] = ErrorOf(Cancelled))
            => observed[j])

\* C31 witness: while job 1 ran, a cancel for the queued job 2 was sent;
\* job 1 polled it away, was not cancelled and ended without a Failure.
C31_Witness ==
  /\ creq[2] /\ ncancel = 1 /\ cancel_rx = <<>>
  /\ jstate[2] = "queued"
  /\ jstate[1] = "done" /\ ~observed[1]
  /\ ncb[1] >= 1
  /\ ErrorsOf(1) = {}

\* a finished request stays finished and its channel stays closed
C32_DoneStep ==
  \A j \in Jobs :
    jstate[j] = "done" => jstate'[j] = "done" /\ tx_closed'[j]

\* C32: under a fairly scheduled worker and a backend that always returns,
\* every request sent on the request channel is received by the worker
\* exactly once and gets finished with its token channel closed, whatever
\* cancels, dropped receivers and errors of earlier requests there are; and
\* the worker comes back to try_recv again and again.
C32_WorkerProgress ==
  /\ \A j \in Jobs :
       (jstate[j] = "queued") ~> (jstate[j] = "done" /\ tx_closed[j])
  /\ [](\A j \in Jobs :
          Cardinality({i \in 1..Len(start_log) : start_log[i] = j}) <= 1)
  /\ [](\A j \in Jobs : jstate[j] = "done" => j \in Range(start_log))
  /\ [][C32_DoneStep]_vars
  /\ []<>(wpc = "recv")

\* C32 witness: the first request ended with a Failure (cancelled, backend
\* error) or with its receiver dropped, and the request queued behind it
\* was received and finished as well.
C32_Witness ==
  /\ start_log = <<1, 2>>
  /\ jstate[1] = "done" /\ jstate[2] = "done"
  /\ tx_closed[1] /\ tx_closed[2]
  /\ ErrorsOf(1) # {} \/ ~rx_alive[1]
  /\ wpc = "recv"

====
